---- MODULE Spec2Model ----
(***************************************************************************)
(* Session handle of the PCP client (src/src/handle.rs) composed with the  *)
(* worker thread that owns the other ends of its channels.                 *)
(*                                                                         *)
(* Handle owns an mpsc::Receiver<Error>, which is not Sync, so a Handle is *)
(* used by one thread at a time: its operations never overlap each other.  *)
(* They do interleave with the worker, so every blocking point of an       *)
(* operation is a position of the application thread (pc).                 *)
(*                                                                         *)
(* The worker is not part of handle.rs; it is modelled from the            *)
(* specification's contract (Running -> Stopping -> Stopped, one reply per *)
(* mapping event, errors posted before the absence reply).                 *)
(***************************************************************************)
EXTENDS Integers, Sequences, FiniteSets, TLC

\* ------------------------------------------------------------- bounds
MaxOps == 3   \* request(), wait_err() and poll_err() calls the application makes
MaxErr == 3   \* errors the worker posts on the error channel

VARIABLES
    pc,          \* position of the application thread that owns the Handle
    cur,         \* request the application thread is inside of (0: none)
    nreq,        \* request() calls made so far
    ncalls,      \* direct wait_err()/poll_err() calls made so far
    cell,        \* cell[a]: the AtomicState allocated as a
    replyq,      \* replyq[a]: contents of the id channel allocated as a
    replyTx,     \* replyTx[a]: the id_tx allocated as a still exists
    result,      \* result[r]: what request r gave its caller
    last,        \* what the last direct wait_err()/poll_err() returned
    events,      \* the event channel (to_client -> worker)
    rxAlive,     \* the worker's event receiver exists
    errq,        \* the error channel (worker -> from_client)
    errTxAlive,  \* the worker's error sender exists
    wstate,      \* worker: Running, Stopping, Stopped
    wcur,        \* worker: mapping request being processed (0: none)
    posted,      \* posted[r]: errors the worker posted for request r
    nerr,        \* errors posted so far (serial of the last one)
    nsent,       \* history: events placed on the event channel
    nshut,       \* history: Shutdown events placed on the event channel
    recvLog,     \* history: serials of the events the worker received
    writes,      \* history: writes[r], worker writes to cell[r]
    consumed,    \* history: consumed[r], values request r took from errq
    wmaps,       \* worker: mappings it accepted (it keeps their cells)
    sentId,      \* history: sentId[r], the identifier the worker sent for r
    answered,    \* history: answered[r], what the worker sent on id_tx of r
    taken,       \* history: the errors handed out, in order, and to whom
    slot,        \* slot[r]: channels and cell request r allocated (0: none)
    alertq,      \* alertq[a]: contents of the alert channel allocated as a
    shutCalled,  \* history: shutdown() has been called
    errAtCall,   \* history: errq when the request in progress was called
    evTxAlive,   \* the handle's event sender (to_client) exists
    errRxAlive,  \* the handle's error receiver (from_client) exists
    idRxAlive,   \* idRxAlive[a]: the id_rx allocated as a still exists
    alertRxAlive, \* alertRxAlive[a]: the alert_rx allocated as a exists
    curImpl,     \* impl of Request the request in progress was called on (none: no request)
    shutFailed   \* history: Shutdown sends that failed (receiver gone)

vars == <<pc, cur, nreq, ncalls, cell, replyq, replyTx, result, last, events,
          rxAlive, errq, errTxAlive, wstate, wcur, posted, nerr, nsent, nshut,
          recvLog, writes, consumed, wmaps, sentId, answered, taken, slot,
          alertq, shutCalled, errAtCall, evTxAlive, errRxAlive, idRxAlive,
          alertRxAlive, curImpl, shutFailed>>

Reqs == 1..MaxOps

\* ------------------------------------------------------------- data
\* enum RequestType { Once, Repeat(usize), KeepAlive }
RequestType == {"Once", "Repeat(3)", "KeepAlive"}

\* The two impls of Request: the event variant each one sends.
Variants == {"InboundMap", "OutboundMap"}

\* Mapping descriptors (InboundMap<Ip> / OutboundMap<Ip> values); opaque.
Descriptors == {"d1", "d2"}

\* enum Error { Socket, Channel, Parsing }
\* `for` and `n` are history fields: the request the worker posted the value
\* for and the value's serial (an Error is moved, never copied).
ErrorTags == {"Socket", "Parsing"}
NoError == [tag |-> "none", for |-> 0, n |-> 0]

\* impl From<RecvError> for Error: Self::Channel(err)
ErrorFromRecvError == [tag |-> "Channel", for |-> 0, n |-> 0]

\* A cell whose last Arc has been dropped.
Freed == "Freed"

\* State::Requested, the value request() stores in a new cell.
Requested == "Requested"

\* Follow-on states the worker writes; their order is the lifecycle.
WorkerStates == <<"Granted">>

StateRank(s) ==
    IF s \in {"Unallocated", Requested} THEN 0
    ELSE CHOOSE i \in 1..Len(WorkerStates) : WorkerStates[i] = s

\* Event::InboundMap / Event::OutboundMap (map, kind, state, id_tx, alert_tx)
\* and Event::Shutdown. r names the state cell and channels the event carries.
MapEvent(v, m, k, r, n) ==
    [type |-> v, map |-> m, kind |-> k, r |-> r, seq |-> n]
ShutdownEvent(n) ==
    [type |-> "Shutdown", map |-> "none", kind |-> "none", r |-> 0, seq |-> n]

\* The event the impl for OutboundMap would send had it been copied from
\* the impl for InboundMap without changing the variant.
request_outbound_event_copied(m, k, r, n) == MapEvent("InboundMap", m, k, r, n)

\* impl Request<Ip, InboundMap<Ip>>: Event::InboundMap(map, kind, ..)
request_inbound_event(m, k, r, n) == MapEvent("InboundMap", m, k, r, n)

\* impl Request<Ip, OutboundMap<Ip>>: Event::OutboundMap(map, kind, ..)
request_outbound_event(m, k, r, n) == MapEvent("OutboundMap", m, k, r, n)

\* ------------------------------------------------------------- channels
\* Send as a stack would do it: the newest value is handed out first.
Send_front(q, alive, v) ==
    IF alive THEN [ok |-> TRUE, q |-> <<v>> \o q]
    ELSE [ok |-> FALSE, q |-> q]

\* mpsc::Sender::send: Ok and the value is queued while the receiver exists,
\* Err(SendError) and nothing is queued once it is gone.
Send(q, alive, v) ==
    IF alive THEN [ok |-> TRUE, q |-> Append(q, v)]
    ELSE [ok |-> FALSE, q |-> q]

\* mpsc::Receiver::recv: the oldest buffered value, also after every sender
\* is gone; Err(RecvError) when empty and disconnected; blocks otherwise.
Recv(q, txAlive) ==
    IF q # <<>> THEN [st |-> "Ok", rest |-> Tail(q)]
    ELSE IF ~txAlive THEN [st |-> "Disconnected", rest |-> q]
    ELSE [st |-> "Blocked", rest |-> q]

\* mpsc::Receiver::try_recv: like recv, but Err(Empty) instead of blocking.
TryRecv(q, txAlive) ==
    IF q # <<>> THEN [st |-> "Ok", rest |-> Tail(q)]
    ELSE IF ~txAlive THEN [st |-> "Disconnected", rest |-> q]
    ELSE [st |-> "Empty", rest |-> q]

\* ------------------------------------------------------------- results
Pending == [kind |-> "Pending", id |-> 0, err |-> NoError, at |-> "none"]
Ok(i) == [kind |-> "Ok", id |-> i, err |-> NoError, at |-> "none"]
Err(e) == [kind |-> "Err", id |-> 0, err |-> e, at |-> "none"]
Panic(where) == [kind |-> "Panic", id |-> 0, err |-> NoError, at |-> where]

NoCall == [op |-> "none", some |-> FALSE, err |-> NoError]

Init ==
    /\ pc = "idle"
    /\ cur = 0
    /\ nreq = 0
    /\ ncalls = 0
    /\ cell = [r \in Reqs |-> "Unallocated"]
    /\ replyq = [r \in Reqs |-> <<>>]
    /\ replyTx = [r \in Reqs |-> FALSE]
    /\ result = [r \in Reqs |-> Pending]
    /\ last = NoCall
    /\ events = <<>>
    /\ rxAlive = TRUE
    /\ errq = <<>>
    /\ errTxAlive = TRUE
    /\ wstate = "Running"
    /\ wcur = 0
    /\ posted = [r \in Reqs |-> 0]
    /\ nerr = 0
    /\ nsent = 0
    /\ nshut = 0
    /\ recvLog = <<>>
    /\ writes = [r \in Reqs |-> 0]
    /\ consumed = [r \in Reqs |-> 0]
    /\ wmaps = {}
    /\ sentId = [r \in Reqs |-> 0]
    /\ answered = [r \in Reqs |-> "no"]
    /\ taken = <<>>
    /\ slot = [r \in Reqs |-> 0]
    /\ alertq = [r \in Reqs |-> <<>>]
    /\ shutCalled = FALSE
    /\ errAtCall = <<>>
    /\ evTxAlive = TRUE
    /\ errRxAlive = TRUE
    /\ idRxAlive = [r \in Reqs |-> FALSE]
    /\ alertRxAlive = [r \in Reqs |-> FALSE]
    /\ curImpl = "none"
    /\ shutFailed = 0

\* ------------------------------------------------------------- session handle
\* History of the error channel's consumers: value e, received from the
\* channel (got) by operation `by`, is added to the log.
Took(log, got, e, by) ==
    IF got THEN Append(log, [n |-> e.n, by |-> by]) ELSE log

\* A cell created in the first state the worker would write.
NewCell_granted == WorkerStates[1]

\* AtomicState::new(State::Requested)
NewCell == Requested

\* wait_err that looks at the oldest error and leaves it in the channel.
wait_err_peek(q, txAlive) ==
    LET rc == Recv(q, txAlive) IN
    [st |-> rc.st,
     val |-> IF rc.st = "Ok" THEN Head(q) ELSE ErrorFromRecvError,
     rest |-> q]

\* wait_err that retries the receive until a value arrives, so that a
\* severed channel keeps it waiting.
wait_err_retry(q, txAlive) ==
    LET rc == Recv(q, txAlive) IN
    [st |-> IF rc.st = "Ok" THEN "Ok" ELSE "Blocked",
     val |-> IF rc.st = "Ok" THEN Head(q) ELSE ErrorFromRecvError,
     rest |-> rc.rest]

\* Handle::wait_err: self.from_client.recv().unwrap_or_else(Error::from)
wait_err(q, txAlive) ==
    LET rc == Recv(q, txAlive) IN
    [st |-> rc.st,
     val |-> IF rc.st = "Ok" THEN Head(q) ELSE ErrorFromRecvError,
     rest |-> rc.rest]

\* poll_err that hands out the newest pending error.
poll_err_newest(q, txAlive) ==
    LET rc == TryRecv(q, txAlive) IN
    [some |-> rc.st = "Ok",
     val |-> IF rc.st = "Ok" THEN q[Len(q)] ELSE NoError,
     rest |-> IF rc.st = "Ok" THEN SubSeq(q, 1, Len(q) - 1) ELSE q]

\* Handle::poll_err: self.from_client.try_recv().ok()
poll_err(q, txAlive) ==
    LET rc == TryRecv(q, txAlive) IN
    [some |-> rc.st = "Ok",
     val |-> IF rc.st = "Ok" THEN Head(q) ELSE NoError,
     rest |-> rc.rest]

\* One channel pair and one cell kept by the handle and used by every call.
Alloc_shared(n) == 1

\* mpsc::channel() and Arc::new(..) return objects that did not exist
\* before: after n calls the next unused index.
Alloc(n) == n + 1

\* The requests whose id_tx, alert_tx and cell are inside an event of q.
Carried(q) == {q[i].r : i \in 1..Len(q)} \ {0}

\* The worker holds a clone of the Arc of cell a: in an event it has not
\* taken yet, in the request it is processing, or in a mapping it accepted.
WorkerHolds(a) ==
    /\ wstate # "Stopped"
    /\ a \in Carried(events) \cup {wcur} \cup wmaps

\* id_rx goes out of scope when request() ends, whichever way: the reply
\* channel is closed and what it still holds is destroyed.  v is the view
\* of the call, a the index of its channels and cell.
DropIdRx(v, a) ==
    [v EXCEPT !.replyq = [@ EXCEPT ![a] = <<>>],
              !.idRxAlive = [@ EXCEPT ![a] = FALSE]]

\* alert_rx and the call's Arc of the cell go out of scope when request()
\* ends without a mapping handle (Err, or a panic that unwinds): the alerts
\* still buffered are destroyed, the alert channel is closed, and the cell
\* is freed unless the worker holds a clone of the Arc.
DropAlertRxAndState(v, a) ==
    [v EXCEPT !.alertq = [@ EXCEPT ![a] = <<>>],
              !.alertRxAlive = [@ EXCEPT ![a] = FALSE],
              !.cell = [@ EXCEPT ![a] = IF WorkerHolds(a) THEN @ ELSE Freed]]

\* What a step of request() can read and change, as it is now.
HandleView ==
    [blocked |-> FALSE, pc |-> pc, cur |-> cur, impl |-> curImpl,
     nreq |-> nreq, slot |-> slot, events |-> events, nsent |-> nsent,
     cell |-> cell, replyq |-> replyq, replyTx |-> replyTx,
     idRxAlive |-> idRxAlive, alertq |-> alertq,
     alertRxAlive |-> alertRxAlive, result |-> result, errq |-> errq,
     taken |-> taken, consumed |-> consumed, errAtCall |-> errAtCall]

\* The step of request() that leads to view v is taken.
Apply(v) ==
    /\ ~v.blocked
    /\ pc' = v.pc
    /\ cur' = v.cur
    /\ curImpl' = v.impl
    /\ nreq' = v.nreq
    /\ slot' = v.slot
    /\ events' = v.events
    /\ nsent' = v.nsent
    /\ cell' = v.cell
    /\ replyq' = v.replyq
    /\ replyTx' = v.replyTx
    /\ idRxAlive' = v.idRxAlive
    /\ alertq' = v.alertq
    /\ alertRxAlive' = v.alertRxAlive
    /\ result' = v.result
    /\ errq' = v.errq
    /\ taken' = v.taken
    /\ consumed' = v.consumed
    /\ errAtCall' = v.errAtCall
    /\ UNCHANGED <<ncalls, last, rxAlive, errTxAlive, wstate, wcur, posted,
                   nerr, nshut, recvLog, writes, wmaps, shutFailed, sentId,
                   answered, shutCalled, evTxAlive, errRxAlive>>

\* impl Request<Ip, InboundMap<Ip>>, up to the send of the event: the
\* channels and the cell are allocated, the event is sent and the Result of
\* the send is unwrapped.  A failed send hands the event back inside the
\* SendError; the unwrap panics and the event and the locals are dropped.
request_inbound_send(m, k) ==
    LET r == nreq + 1
        a == Alloc(nreq)
        s == Send(events, rxAlive, request_inbound_event(m, k, a, nsent + 1))
        v == [HandleView EXCEPT !.nreq = r,
                                !.slot = [@ EXCEPT ![r] = a],
                                !.cell = [@ EXCEPT ![a] = NewCell],
                                !.events = s.q]
    IN IF s.ok
       THEN [v EXCEPT !.pc = "request_recv",
                      !.cur = r,
                      !.impl = "InboundMap",
                      !.nsent = nsent + 1,
                      !.replyTx = [@ EXCEPT ![a] = TRUE],
                      !.idRxAlive = [@ EXCEPT ![a] = TRUE],
                      !.alertRxAlive = [@ EXCEPT ![a] = TRUE],
                      !.errAtCall = errq]
       ELSE [DropAlertRxAndState(DropIdRx(v, a), a) EXCEPT
                      !.pc = "panicked",
                      !.result = [@ EXCEPT ![r] = Panic("send")]]

\* impl Request<Ip, OutboundMap<Ip>>, up to the send of the event.
request_outbound_send(m, k) ==
    LET r == nreq + 1
        a == Alloc(nreq)
        s == Send(events, rxAlive, request_outbound_event(m, k, a, nsent + 1))
        v == [HandleView EXCEPT !.nreq = r,
                                !.slot = [@ EXCEPT ![r] = a],
                                !.cell = [@ EXCEPT ![a] = NewCell],
                                !.events = s.q]
    IN IF s.ok
       THEN [v EXCEPT !.pc = "request_recv",
                      !.cur = r,
                      !.impl = "OutboundMap",
                      !.nsent = nsent + 1,
                      !.replyTx = [@ EXCEPT ![a] = TRUE],
                      !.idRxAlive = [@ EXCEPT ![a] = TRUE],
                      !.alertRxAlive = [@ EXCEPT ![a] = TRUE],
                      !.errAtCall = errq]
       ELSE [DropAlertRxAndState(DropIdRx(v, a), a) EXCEPT
                      !.pc = "panicked",
                      !.result = [@ EXCEPT ![r] = Panic("send")]]

\* request(): the impl is selected by the type of the descriptor.
request_send(v, m, k) ==
    /\ pc = "idle"
    /\ nreq + ncalls < MaxOps
    /\ Apply(IF v = "InboundMap" THEN request_inbound_send(m, k)
             ELSE request_outbound_send(m, k))

\* request() that takes absence for the default identifier.
request_reply_default(v) ==
    [next |-> "idle", res |-> Ok(v.id)]

\* request() with the two branches of `if let Some(id)` exchanged.
request_reply_swapped(v) ==
    IF v.some THEN [next |-> "request_wait_err", res |-> Pending]
    ELSE [next |-> "idle", res |-> Ok(v.id)]

\* The inbound impl: what it does with the value id_rx.recv() gave it.
request_inbound_reply(v) ==
    IF v.some THEN [next |-> "idle", res |-> Ok(v.id)]
    ELSE [next |-> "request_wait_err", res |-> Pending]

\* The outbound impl: what it does with the value id_rx.recv() gave it.
request_outbound_reply(v) ==
    IF v.some THEN [next |-> "idle", res |-> Ok(v.id)]
    ELSE [next |-> "request_wait_err", res |-> Pending]

\* request() that itself stores the granted state in the cell of the mapping
\* handle it returns.
request_recv_stores ==
    LET r == cur
        a == slot[r]
        rc == Recv(replyq[a], replyTx[a])
        v == [HandleView EXCEPT !.replyq = [@ EXCEPT ![a] = rc.rest]]
    IN IF rc.st = "Blocked" THEN [HandleView EXCEPT !.blocked = TRUE]
       ELSE IF rc.st = "Ok"
       THEN LET o == request_inbound_reply(Head(replyq[a])) IN
            IF o.next = "idle"
            THEN [DropIdRx(v, a) EXCEPT
                      !.pc = "idle", !.cur = 0, !.impl = "none",
                      !.result = [@ EXCEPT ![r] = o.res],
                      !.cell = [@ EXCEPT ![a] = WorkerStates[1]],
                      !.errAtCall = <<>>]
            ELSE [v EXCEPT !.pc = o.next]
       ELSE [DropAlertRxAndState(DropIdRx(v, a), a) EXCEPT
                      !.pc = "panicked", !.cur = 0, !.impl = "none",
                      !.result = [@ EXCEPT ![r] = Panic("recv")],
                      !.errAtCall = <<>>]

\* request() that empties the error channel before it returns success.
request_recv_drains ==
    LET r == cur
        a == slot[r]
        rc == Recv(replyq[a], replyTx[a])
        v == [HandleView EXCEPT !.replyq = [@ EXCEPT ![a] = rc.rest]]
    IN IF rc.st = "Blocked" THEN [HandleView EXCEPT !.blocked = TRUE]
       ELSE IF rc.st = "Ok"
       THEN LET o == request_inbound_reply(Head(replyq[a])) IN
            IF o.next = "idle"
            THEN [DropIdRx(v, a) EXCEPT
                      !.pc = "idle", !.cur = 0, !.impl = "none",
                      !.result = [@ EXCEPT ![r] = o.res],
                      !.errq = <<>>,
                      !.errAtCall = <<>>]
            ELSE [v EXCEPT !.pc = o.next]
       ELSE [DropAlertRxAndState(DropIdRx(v, a), a) EXCEPT
                      !.pc = "panicked", !.cur = 0, !.impl = "none",
                      !.result = [@ EXCEPT ![r] = Panic("recv")],
                      !.errAtCall = <<>>]

\* The inbound impl at id_rx.recv().unwrap(): blocked until the worker
\* replies or drops id_tx.  The call ends here on Some(id), with a mapping
\* handle that takes the cell and alert_rx, and on a panic, which drops them.
request_inbound_recv ==
    LET r == cur
        a == slot[r]
        rc == Recv(replyq[a], replyTx[a])
        v == [HandleView EXCEPT !.replyq = [@ EXCEPT ![a] = rc.rest]]
    IN IF rc.st = "Blocked" THEN [HandleView EXCEPT !.blocked = TRUE]
       ELSE IF rc.st = "Ok"
       THEN LET o == request_inbound_reply(Head(replyq[a])) IN
            IF o.next = "idle"
            THEN [DropIdRx(v, a) EXCEPT
                      !.pc = "idle", !.cur = 0, !.impl = "none",
                      !.result = [@ EXCEPT ![r] = o.res],
                      !.errAtCall = <<>>]
            ELSE [v EXCEPT !.pc = o.next]
       ELSE [DropAlertRxAndState(DropIdRx(v, a), a) EXCEPT
                      !.pc = "panicked", !.cur = 0, !.impl = "none",
                      !.result = [@ EXCEPT ![r] = Panic("recv")],
                      !.errAtCall = <<>>]

\* The outbound impl at id_rx.recv().unwrap().
request_outbound_recv ==
    LET r == cur
        a == slot[r]
        rc == Recv(replyq[a], replyTx[a])
        v == [HandleView EXCEPT !.replyq = [@ EXCEPT ![a] = rc.rest]]
    IN IF rc.st = "Blocked" THEN [HandleView EXCEPT !.blocked = TRUE]
       ELSE IF rc.st = "Ok"
       THEN LET o == request_outbound_reply(Head(replyq[a])) IN
            IF o.next = "idle"
            THEN [DropIdRx(v, a) EXCEPT
                      !.pc = "idle", !.cur = 0, !.impl = "none",
                      !.result = [@ EXCEPT ![r] = o.res],
                      !.errAtCall = <<>>]
            ELSE [v EXCEPT !.pc = o.next]
       ELSE [DropAlertRxAndState(DropIdRx(v, a), a) EXCEPT
                      !.pc = "panicked", !.cur = 0, !.impl = "none",
                      !.result = [@ EXCEPT ![r] = Panic("recv")],
                      !.errAtCall = <<>>]

\* request(), at id_rx.recv().unwrap(), in the impl that was called.
request_recv ==
    /\ pc = "request_recv"
    /\ Apply(IF curImpl = "InboundMap" THEN request_inbound_recv
             ELSE request_outbound_recv)

\* The inbound impl at Err(self.wait_err()): blocked until an error is
\* buffered or the error channel is severed; then the call ends and its
\* locals are dropped.
request_inbound_wait_err ==
    LET r == cur
        a == slot[r]
        w == wait_err(errq, errTxAlive)
    IN IF w.st = "Blocked" THEN [HandleView EXCEPT !.blocked = TRUE]
       ELSE [DropAlertRxAndState(DropIdRx(HandleView, a), a) EXCEPT
                !.pc = "idle", !.cur = 0, !.impl = "none",
                !.errq = w.rest,
                !.result = [@ EXCEPT ![r] = Err(w.val)],
                !.taken = Took(taken, w.st = "Ok", w.val, "request"),
                !.consumed = [@ EXCEPT ![r] = @ + Len(errq) - Len(w.rest)],
                !.errAtCall = <<>>]

\* The outbound impl at Err(self.wait_err()).
request_outbound_wait_err ==
    LET r == cur
        a == slot[r]
        w == wait_err(errq, errTxAlive)
    IN IF w.st = "Blocked" THEN [HandleView EXCEPT !.blocked = TRUE]
       ELSE [DropAlertRxAndState(DropIdRx(HandleView, a), a) EXCEPT
                !.pc = "idle", !.cur = 0, !.impl = "none",
                !.errq = w.rest,
                !.result = [@ EXCEPT ![r] = Err(w.val)],
                !.taken = Took(taken, w.st = "Ok", w.val, "request"),
                !.consumed = [@ EXCEPT ![r] = @ + Len(errq) - Len(w.rest)],
                !.errAtCall = <<>>]

\* request(), at Err(self.wait_err()), in the impl that was called.
request_wait_err ==
    /\ pc = "request_wait_err"
    /\ Apply(IF curImpl = "InboundMap" THEN request_inbound_wait_err
             ELSE request_outbound_wait_err)

\* The application calls wait_err().
call_wait_err ==
    /\ pc = "idle"
    /\ nreq + ncalls < MaxOps
    /\ ncalls' = ncalls + 1
    /\ pc' = "wait_err"
    /\ UNCHANGED <<cur, nreq, cell, replyq, replyTx, result, last, events,
                   rxAlive, errq, errTxAlive, wstate, wcur, posted, nerr,
                   nsent, nshut, recvLog, writes, consumed, wmaps, shutFailed,
                   sentId, answered, taken, slot, alertq, shutCalled,
                   errAtCall, evTxAlive, errRxAlive, idRxAlive, alertRxAlive,
                   curImpl>>

\* wait_err() returns to the application.
return_wait_err ==
    /\ pc = "wait_err"
    /\ LET w == wait_err(errq, errTxAlive)
       IN /\ w.st # "Blocked"
          /\ errq' = w.rest
          /\ last' = [op |-> "wait_err", some |-> TRUE, err |-> w.val]
          /\ taken' = Took(taken, w.st = "Ok", w.val, "wait_err")
    /\ pc' = "idle"
    /\ UNCHANGED <<cur, nreq, ncalls, cell, replyq, replyTx, result, events,
                   rxAlive, errTxAlive, wstate, wcur, posted, nerr, nsent,
                   nshut, recvLog, writes, consumed, wmaps, shutFailed,
                   sentId, answered, slot, alertq, shutCalled, errAtCall,
                   evTxAlive, errRxAlive, idRxAlive, alertRxAlive, curImpl>>

\* The application calls poll_err(); it never blocks.
call_poll_err ==
    /\ pc = "idle"
    /\ nreq + ncalls < MaxOps
    /\ ncalls' = ncalls + 1
    /\ LET p == poll_err(errq, errTxAlive)
       IN /\ errq' = p.rest
          /\ last' = [op |-> "poll_err", some |-> p.some, err |-> p.val]
          /\ taken' = Took(taken, p.some, p.val, "poll_err")
    /\ UNCHANGED <<pc, cur, nreq, cell, replyq, replyTx, result, events,
                   rxAlive, errTxAlive, wstate, wcur, posted, nerr, nsent,
                   nshut, recvLog, writes, consumed, wmaps, shutFailed,
                   sentId, answered, slot, alertq, shutCalled, errAtCall,
                   evTxAlive, errRxAlive, idRxAlive, alertRxAlive, curImpl>>

\* self.to_client.send(Event::Shutdown).ok(): the Result is discarded.
SendShutdown ==
    LET ev == ShutdownEvent(nsent + 1)
        s == Send(events, rxAlive, ev)
    IN /\ events' = s.q
       /\ nsent' = IF s.ok THEN nsent + 1 ELSE nsent
       /\ nshut' = IF s.ok THEN nshut + 1 ELSE nshut
       /\ shutFailed' = IF s.ok THEN shutFailed ELSE shutFailed + 1

\* shutdown() that unwraps the Result of the send instead of discarding it.
shutdown_unwrap ==
    /\ pc = "idle"
    /\ SendShutdown
    /\ shutCalled' = TRUE
    /\ pc' = IF rxAlive THEN "shutdown_drop" ELSE "panicked"
    /\ UNCHANGED <<cur, nreq, ncalls, cell, replyq, replyTx, result, last,
                   rxAlive, errq, errTxAlive, wstate, wcur, posted, nerr,
                   recvLog, writes, consumed, wmaps, sentId, answered, taken,
                   slot, alertq, errAtCall, evTxAlive, errRxAlive, idRxAlive,
                   alertRxAlive, curImpl>>

\* shutdown() after which the destructor of the consumed handle does not run.
shutdown_forgets ==
    /\ pc = "idle"
    /\ SendShutdown
    /\ shutCalled' = TRUE
    /\ pc' = "dropped"
    /\ UNCHANGED <<cur, nreq, ncalls, cell, replyq, replyTx, result, last,
                   rxAlive, errq, errTxAlive, wstate, wcur, posted, nerr,
                   recvLog, writes, consumed, wmaps, sentId, answered, taken,
                   slot, alertq, errAtCall, evTxAlive, errRxAlive, idRxAlive,
                   alertRxAlive, curImpl>>

\* Handle::shutdown(self), its body; self is dropped when it returns.
shutdown ==
    /\ pc = "idle"
    /\ SendShutdown
    /\ shutCalled' = TRUE
    /\ pc' = "shutdown_drop"
    /\ UNCHANGED <<cur, nreq, ncalls, cell, replyq, replyTx, result, last,
                   rxAlive, errq, errTxAlive, wstate, wcur, posted, nerr,
                   recvLog, writes, consumed, wmaps, sentId, answered, taken,
                   slot, alertq, errAtCall, evTxAlive, errRxAlive, idRxAlive,
                   alertRxAlive, curImpl>>

\* The fields of Handle are dropped after Drop::drop has run: the event
\* sender ends, and the error receiver ends and with it every error still
\* buffered in the error channel.
DropFields ==
    /\ evTxAlive' = FALSE
    /\ errRxAlive' = FALSE
    /\ errq' = <<>>

\* A handle that goes away without its destructor sending anything.
drop_silent ==
    /\ pc \in {"idle", "shutdown_drop", "panicked"}
    /\ DropFields
    /\ pc' = "dropped"
    /\ UNCHANGED <<cur, nreq, ncalls, cell, replyq, replyTx, result, last,
                   events, rxAlive, errTxAlive, wstate, wcur, posted, nerr,
                   nsent, nshut, recvLog, writes, consumed, wmaps, sentId,
                   answered, shutFailed, taken, slot, alertq, shutCalled,
                   errAtCall, idRxAlive, alertRxAlive, curImpl>>

\* The destruction of the Handle: Drop::drop, then the drop of its fields.
\* At the end of shutdown(), when the owner lets the handle go, or while a
\* panic of request() unwinds the owner's stack.
drop ==
    /\ pc \in {"idle", "shutdown_drop", "panicked"}
    /\ SendShutdown
    /\ DropFields
    /\ pc' = "dropped"
    /\ UNCHANGED <<cur, nreq, ncalls, cell, replyq, replyTx, result, last,
                   rxAlive, errTxAlive, wstate, wcur, posted, nerr, recvLog,
                   writes, consumed, wmaps, sentId, answered, taken, slot,
                   alertq, shutCalled, errAtCall, idRxAlive, alertRxAlive,
                   curImpl>>

\* ------------------------------------------------------------- worker
\* A worker that takes every Shutdown as a toggle.
OnShutdown_toggle(ws) == IF ws = "Running" THEN "Stopping" ELSE "Running"

\* The worker's state machine on receipt of Shutdown: Running -> Stopping;
\* in Stopping (and Stopped) the event is a no-op.
OnShutdown(ws) == IF ws = "Running" THEN "Stopping" ELSE ws

\* The worker takes the next event off its receiver, in send order. A
\* mapping event is processed while Running and dropped unanswered (its
\* id_tx with it) once the worker is stopping.
worker_recv ==
    /\ wstate # "Stopped"
    /\ wcur = 0
    /\ events # <<>>
    /\ LET e == Head(events)
       IN /\ events' = Tail(events)
          /\ recvLog' = Append(recvLog, e.seq)
          /\ IF e.type = "Shutdown"
             THEN /\ wstate' = OnShutdown(wstate)
                  /\ UNCHANGED <<wcur, replyTx>>
             ELSE /\ wstate' = wstate
                  /\ IF wstate = "Running"
                     THEN /\ wcur' = e.r
                          /\ replyTx' = replyTx
                     ELSE /\ wcur' = wcur
                          /\ replyTx' = [replyTx EXCEPT ![e.r] = FALSE]
    /\ UNCHANGED <<pc, cur, nreq, ncalls, cell, replyq, result, last, rxAlive,
                   errq, errTxAlive, posted, nerr, nsent, nshut, writes,
                   consumed, wmaps, shutFailed, sentId, answered, taken, slot,
                   alertq, shutCalled, errAtCall, evTxAlive, errRxAlive,
                   idRxAlive, alertRxAlive, curImpl>>

\* The identifier the worker gives the next mapping it accepts.
NextId == Cardinality(wmaps) + 1

\* The worker accepts the mapping: it sends the identifier on id_tx.
worker_accept ==
    /\ wcur # 0
    /\ posted[wcur] = 0
    /\ replyq' = [replyq EXCEPT ![wcur] =
                    Send(@, idRxAlive[wcur], [some |-> TRUE, id |-> NextId]).q]
    /\ sentId' = [sentId EXCEPT ![wcur] = NextId]
    /\ answered' = [answered EXCEPT ![wcur] = "id"]
    /\ replyTx' = [replyTx EXCEPT ![wcur] = FALSE]
    /\ wmaps' = wmaps \cup {wcur}
    /\ wcur' = 0
    /\ UNCHANGED <<pc, cur, nreq, ncalls, cell, result, last, events, rxAlive,
                   errq, errTxAlive, wstate, posted, nerr, nsent, nshut,
                   recvLog, writes, consumed, shutFailed, taken, slot, alertq,
                   shutCalled, errAtCall, evTxAlive, errRxAlive, idRxAlive,
                   alertRxAlive, curImpl>>

\* The worker posts an error for the mapping it is processing.
worker_post_error(tag) ==
    /\ wcur # 0
    /\ nerr < MaxErr
    /\ LET s == Send(errq, errRxAlive,
                     [tag |-> tag, for |-> wcur, n |-> nerr + 1])
       IN /\ errq' = s.q
          /\ nerr' = IF s.ok THEN nerr + 1 ELSE nerr
    /\ posted' = [posted EXCEPT ![wcur] = @ + 1]
    /\ UNCHANGED <<pc, cur, nreq, ncalls, cell, replyq, replyTx, result, last,
                   events, rxAlive, errTxAlive, wstate, wcur, nsent, nshut,
                   recvLog, writes, consumed, wmaps, shutFailed, sentId,
                   answered, taken, slot, alertq, shutCalled, errAtCall,
                   evTxAlive, errRxAlive, idRxAlive, alertRxAlive, curImpl>>

\* The worker rejects the mapping: absence on id_tx, after its error.
worker_reject ==
    /\ wcur # 0
    /\ posted[wcur] >= 1
    /\ replyq' = [replyq EXCEPT ![wcur] =
                    Send(@, idRxAlive[wcur], [some |-> FALSE, id |-> 0]).q]
    /\ answered' = [answered EXCEPT ![wcur] = "absence"]
    /\ replyTx' = [replyTx EXCEPT ![wcur] = FALSE]
    /\ wcur' = 0
    /\ UNCHANGED <<pc, cur, nreq, ncalls, cell, result, last, events, rxAlive,
                   errq, errTxAlive, wstate, posted, nerr, nsent, nshut,
                   recvLog, writes, consumed, wmaps, shutFailed, sentId,
                   taken, slot, alertq, shutCalled, errAtCall, evTxAlive,
                   errRxAlive, idRxAlive, alertRxAlive, curImpl>>

\* The worker stores the next lifecycle state in a cell it holds.
worker_write(r, s) ==
    /\ wstate # "Stopped"
    /\ r \in wmaps \cup ({wcur} \ {0})
    /\ StateRank(s) = StateRank(cell[r]) + 1
    /\ cell' = [cell EXCEPT ![r] = s]
    /\ alertq' = [alertq EXCEPT ![r] = Send(@, alertRxAlive[r], s).q]
    /\ writes' = [writes EXCEPT ![r] = @ + 1]
    /\ UNCHANGED <<pc, cur, nreq, ncalls, replyq, replyTx, result, last,
                   events, rxAlive, errq, errTxAlive, wstate, wcur, posted,
                   nerr, nsent, nshut, recvLog, consumed, wmaps, shutFailed,
                   sentId, answered, taken, slot, shutCalled, errAtCall,
                   evTxAlive, errRxAlive, idRxAlive, alertRxAlive, curImpl>>

\* The worker fails on its own (the gateway is unreachable) and begins to stop.
worker_fail ==
    /\ wstate = "Running"
    /\ wstate' = "Stopping"
    /\ UNCHANGED <<pc, cur, nreq, ncalls, cell, replyq, replyTx, result, last,
                   events, rxAlive, errq, errTxAlive, wcur, posted, nerr,
                   nsent, nshut, recvLog, writes, consumed, wmaps, shutFailed,
                   sentId, answered, taken, slot, alertq, shutCalled,
                   errAtCall, evTxAlive, errRxAlive, idRxAlive, alertRxAlive,
                   curImpl>>

\* The worker thread ends: its event receiver and its error sender are
\* dropped, and with the receiver every event still queued or in process,
\* so the id_tx of each of them is dropped without a reply.
worker_stop ==
    /\ wstate = "Stopping"
    /\ wstate' = "Stopped"
    /\ rxAlive' = FALSE
    /\ errTxAlive' = FALSE
    /\ events' = <<>>
    /\ replyTx' = [r \in Reqs |->
                     IF r \in Carried(events) \cup {wcur} THEN FALSE
                     ELSE replyTx[r]]
    /\ wcur' = 0
    /\ UNCHANGED <<pc, cur, nreq, ncalls, cell, replyq, result, last, errq,
                   posted, nerr, nsent, nshut, recvLog, writes, consumed,
                   wmaps, shutFailed, sentId, answered, taken, slot, alertq,
                   shutCalled, errAtCall, evTxAlive, errRxAlive, idRxAlive,
                   alertRxAlive, curImpl>>

\* ------------------------------------------------------------- system
Next ==
    \/ \E v \in Variants, m \in Descriptors, k \in RequestType :
          request_send(v, m, k)
    \/ request_recv
    \/ request_wait_err
    \/ call_wait_err
    \/ return_wait_err
    \/ call_poll_err
    \/ shutdown
    \/ drop
    \/ worker_recv
    \/ worker_accept
    \/ \E t \in ErrorTags : worker_post_error(t)
    \/ worker_reject
    \/ \E r \in Reqs, i \in 1..Len(WorkerStates) : worker_write(r, WorkerStates[i])
    \/ worker_fail
    \/ worker_stop

Spec == Init /\ [][Next]_vars

\* A thread whose receive can return is scheduled and returns; the worker
\* is under no obligation.
FairSpec ==
    /\ Spec
    /\ WF_vars(request_recv)
    /\ WF_vars(request_wait_err)
    /\ WF_vars(return_wait_err)

\* The worker of the contract: it does not fail on its own, so it answers
\* every mapping event it receives.
NextContract ==
    \/ \E v \in Variants, m \in Descriptors, k \in RequestType :
          request_send(v, m, k)
    \/ request_recv
    \/ request_wait_err
    \/ call_wait_err
    \/ return_wait_err
    \/ call_poll_err
    \/ shutdown
    \/ drop
    \/ worker_recv
    \/ worker_accept
    \/ \E t \in ErrorTags : worker_post_error(t)
    \/ worker_reject
    \/ \E r \in Reqs, i \in 1..Len(WorkerStates) : worker_write(r, WorkerStates[i])
    \/ worker_stop

\* The worker thread runs: it takes the next event and answers the one it
\* is processing; a receive of the application that can return does.
ContractSpec ==
    /\ Init
    /\ [][NextContract]_vars
    /\ WF_vars(request_recv)
    /\ WF_vars(request_wait_err)
    /\ WF_vars(return_wait_err)
    /\ WF_vars(worker_recv)
    /\ WF_vars(worker_accept \/ worker_reject)

\* ------------------------------------------------------------- properties
Finished(r) == r <= nreq /\ cur # r

\* C1: a request() that returned success did so after the worker sent an
\* identifier for that very request, and its mapping handle carries exactly
\* that identifier.
C1_SuccessCarriesWorkerId ==
    \A r \in Reqs :
        result[r].kind = "Ok" =>
            /\ Finished(r)
            /\ answered[r] = "id"
            /\ result[r].id = sentId[r]

\* Two requests have succeeded, each with its own identifier.
C1_Witness ==
    /\ result[1].kind = "Ok"
    /\ result[2].kind = "Ok"
    /\ result[1].id # result[2].id

\* C2: the cell of a mapping handle reads Requested as long as the worker
\* has not written to it, whatever the session handle does meanwhile.
C2_RequestedUntilWorkerWrites ==
    \A r \in Reqs :
        (result[r].kind = "Ok" /\ writes[r] = 0) => cell[r] = Requested

\* A mapping handle whose cell the worker never wrote, after the session
\* handle made further calls and was shut down and dropped.
C2_Witness ==
    /\ result[1].kind = "Ok"
    /\ writes[1] = 0
    /\ nreq + ncalls = MaxOps
    /\ last.op # "none"
    /\ nshut = 2
    /\ pc = "dropped"

\* C3: a request() answered with absence finds an error to take, returns an
\* error, has taken exactly one value from the error channel, and no two
\* requests return the same value.
C3_FailedRequestTakesOneError ==
    /\ pc = "request_wait_err" => (answered[cur] = "absence" /\ errq # <<>>)
    /\ \A r \in Reqs :
          (Finished(r) /\ answered[r] = "absence") =>
              /\ result[r].kind = "Err"
              /\ consumed[r] = 1
              /\ result[r].err.n >= 1
              /\ \A r2 \in Reqs \ {r} :
                    result[r2].kind = "Err" => result[r2].err.n # result[r].err.n

\* Two requests have failed and returned.
C3_Witness ==
    /\ result[1].kind = "Err"
    /\ result[2].kind = "Err"

\* C4: a failed request() returns the error the worker posted for that
\* very request.
C4_ReturnsOwnError ==
    \A r \in Reqs :
        (Finished(r) /\ answered[r] = "absence") => result[r].err.for = r

\* C5: a request() whose reply channel the worker dropped without a reply
\* returns Err(Channel) to its caller.
C5_DroppedReplyGivesChannelError ==
    \A r \in Reqs :
        (Finished(r) /\ answered[r] = "no" /\ result[r].at # "send") =>
            result[r] = Err(ErrorFromRecvError)

\* C6: every request() call ends by returning a Result value; none aborts
\* its caller.
C6_RequestAlwaysReturnsResult ==
    \A r \in Reqs : Finished(r) => result[r].kind \in {"Ok", "Err"}

\* C7: the worker leaves Running at most once, and a Shutdown it receives
\* after it left Running changes nothing the worker or the application can
\* see.
C7_ShutdownIdempotent ==
    [][/\ wstate # "Running" => wstate' # "Running"
       /\ ( /\ wstate # "Running"
            /\ events # <<>>
            /\ Head(events).type = "Shutdown"
            /\ Len(recvLog') = Len(recvLog) + 1 )
          => UNCHANGED <<wstate, wcur, wmaps, cell, replyq, replyTx, errq,
                         errTxAlive, rxAlive, posted, nerr, writes, sentId,
                         answered, result, last>>]_vars

\* shutdown() and the drop after it both placed a Shutdown, and the worker
\* has received both.
C7_Witness ==
    /\ pc = "dropped"
    /\ nshut = 2
    /\ events = <<>>
    /\ Len(recvLog) = nsent
    /\ wstate = "Stopping"

\* C8 (as amended): after a session handle is destroyed, a Shutdown has
\* been placed on the event channel unless the worker's event receiver was
\* already gone, and a worker still Running has a Shutdown queued.
C8_DestroyedHandleQueuesShutdown ==
    pc = "dropped" =>
        /\ nshut >= 1 \/ ~rxAlive
        /\ wstate = "Running" =>
              \E i \in 1..Len(events) : events[i].type = "Shutdown"

\* The handle was destroyed without shutdown(), and its one Shutdown waits
\* for a worker that is still Running.
C8_Witness ==
    /\ pc = "dropped"
    /\ nshut = 1
    /\ shutFailed = 0
    /\ wstate = "Running"

\* C8 as stated: whenever a session handle is destroyed, at least one
\* Shutdown has been placed on the event channel.
C8_Original == pc = "dropped" => nshut >= 1

\* C9: the worker receives the events in the order they were sent: the
\* k-th event it receives is the k-th event sent, and what is still queued
\* is queued in send order.
C9_EventsInSendOrder ==
    /\ \A i \in 1..Len(recvLog) : recvLog[i] = i
    /\ \A i \in 1..Len(events) : events[i].seq = Len(recvLog) + i

\* The worker has received a mapping request and, after it, both Shutdowns
\* of the handle.
C9_Witness ==
    /\ nreq >= 1
    /\ nshut = 2
    /\ Len(recvLog) = nsent
    /\ nsent >= 3

InWaitErr == pc \in {"wait_err", "request_wait_err"}

\* C10 (as amended): once the error sender is dropped, a wait_err() call
\* that is waiting or is made later returns; it returns the oldest error
\* still buffered, and a Channel error when none is.
C10_WaitErrReturns ==
    /\ [](InWaitErr /\ ~errTxAlive => <>(~InWaitErr))
    /\ [][(pc = "wait_err" /\ ~errTxAlive /\ pc' # "wait_err") =>
              last'.err = IF errq = <<>> THEN ErrorFromRecvError
                          ELSE Head(errq)]_vars

\* A wait_err() made after the worker ended has returned a Channel error.
C10_Witness ==
    /\ ~errTxAlive
    /\ last.op = "wait_err"
    /\ last.err = ErrorFromRecvError

\* C10 as stated: once the error sender is dropped, wait_err() returns a
\* Channel error.
C10_Original ==
    [][(pc = "wait_err" /\ ~errTxAlive /\ pc' # "wait_err") =>
          last'.err.tag = "Channel"]_vars

\* C11: with a worker that answers every mapping event and posts its error
\* before an absence reply, every request() call returns to its caller,
\* whatever wait_err() and poll_err() calls were made around it.
C11_RequestReturns ==
    /\ (cur # 0) ~> (cur = 0 /\ pc = "idle")
    /\ [](\A r \in Reqs : Finished(r) => result[r].kind \in {"Ok", "Err"})

\* A failed request has returned between a poll_err() and a wait_err() of
\* the application, which took the second error posted for it.
C11_Witness ==
    /\ result[1].kind = "Err"
    /\ ncalls = 2
    /\ last.op = "wait_err"
    /\ last.err.n = 2

\* A step of the application that is a whole poll_err() call.
IsPollErr == pc = "idle" /\ pc' = "idle" /\ ncalls' = ncalls + 1

\* C12: the errors the worker posted are delivered to the calls on the
\* handle (wait_err, poll_err, the fetch inside a failed request) first
\* come, first served.  The k-th value handed out is the k-th posted, so
\* none is handed out twice and none is skipped; every posted value not
\* handed out yet is still in the channel of the handle, in the order
\* posted; a value leaves the channel only as the oldest one, into the
\* hands of exactly one call.  A poll_err() against exactly one pending
\* error returns it and leaves none, so that of two poll_err() calls
\* against one pending error the first to run returns it and the other
\* returns nothing.  (Once the handle is destroyed there is neither a
\* channel nor a call: nothing is handed out any more.)
C12_ErrorsFirstComeFirstServed ==
    /\ [](\A i \in 1..Len(taken) : taken[i].n = i)
    /\ [](\A i \in 1..Len(errq) : errq[i].n = Len(taken) + i)
    /\ [](errRxAlive => Len(taken) + Len(errq) = nerr)
    /\ [](~errRxAlive => errq = <<>>)
    /\ [][/\ Len(errq') < Len(errq) =>
               \/ /\ errq' = Tail(errq)
                  /\ Len(taken') = Len(taken) + 1
                  /\ taken'[Len(taken')].n = Head(errq).n
               \/ /\ pc' = "dropped"
                  /\ errRxAlive /\ ~errRxAlive'
                  /\ errq' = <<>>
                  /\ taken' = taken
          /\ ~errRxAlive => (taken' = taken /\ errq' = errq)
          /\ IsPollErr /\ Len(errq) = 1 =>
               /\ last'.op = "poll_err" /\ last'.some
               /\ last'.err = Head(errq)
               /\ errq' = <<>>
               /\ Len(taken') = Len(taken) + 1
               /\ taken'[Len(taken')].by = "poll_err"
          /\ IsPollErr /\ errq = <<>> =>
               /\ last'.op = "poll_err" /\ ~last'.some
               /\ taken' = taken /\ errq' = errq]_vars

\* Two poll_err() calls against exactly one pending error: the worker
\* posted two errors, the failed request took the first, the first
\* poll_err() returned the second and the other poll_err() returned nothing.
C12_Witness ==
    /\ errRxAlive
    /\ nreq = 1
    /\ ncalls = 2
    /\ nerr = 2
    /\ Len(taken) = 2
    /\ taken[1].by = "request"
    /\ taken[2].by = "poll_err"
    /\ last.op = "poll_err"
    /\ ~last.some
    /\ errq = <<>>

\* C13: poll_err() never blocks; it returns Some(e) and removes exactly the
\* oldest pending error e when at least one error is pending, and otherwise
\* returns None and leaves the error channel as it is.
C13_PollErrOldestOrNone ==
    /\ []((pc = "idle" /\ nreq + ncalls < MaxOps) => ENABLED call_poll_err)
    /\ [][IsPollErr =>
            IF errq # <<>>
            THEN /\ last' = [op |-> "poll_err", some |-> TRUE, err |-> Head(errq)]
                 /\ errq' = Tail(errq)
            ELSE /\ last' = [op |-> "poll_err", some |-> FALSE, err |-> NoError]
                 /\ errq' = errq]_vars

\* poll_err() returned the older of two pending errors and left the other.
C13_Witness ==
    /\ last.op = "poll_err"
    /\ last.some
    /\ errq # <<>>
    /\ last.err.n < errq[1].n

\* C14: every receive of the handle that finds its channel closed by the
\* worker and empty gives its caller a Channel error: the blocking receive
\* of wait_err(), the non-blocking receive of poll_err() and the receive of
\* the reply in request().
C14_ClosedChannelGivesChannelError ==
    [][/\ (IsPollErr /\ errq = <<>> /\ ~errTxAlive) =>
             (last'.some /\ last'.err = ErrorFromRecvError)
       /\ (pc = "wait_err" /\ pc' # pc /\ errq = <<>> /\ ~errTxAlive) =>
             last'.err = ErrorFromRecvError
       /\ (pc = "request_wait_err" /\ pc' # pc /\ errq = <<>> /\ ~errTxAlive) =>
             result'[cur] = Err(ErrorFromRecvError)
       /\ (pc = "request_recv" /\ pc' # pc /\ replyq[cur] = <<>> /\ ~replyTx[cur]) =>
             result'[cur] = Err(ErrorFromRecvError)]_vars

\* C15 as stated: when the send of Shutdown fails because the worker's
\* event receiver is gone, shutdown() and the destruction of the handle
\* leave the error channel and every state cell unchanged.
C15_Original ==
    [][shutFailed' = shutFailed + 1 =>
         UNCHANGED <<errq, cell>>]_vars

\* C15: shutdown() and the destruction of the handle can always be carried
\* out, and when their send of Shutdown fails because the worker's event
\* receiver is gone they still complete as usual, report nothing, and leave
\* the event channel and every state cell unchanged.  The body of
\* shutdown() leaves the error channel unchanged too; the destruction of
\* the handle ends the error receiver and discards the errors pending.
C15_ShutdownBestEffort ==
    /\ [](pc = "idle" => (ENABLED shutdown /\ ENABLED drop))
    /\ [](pc = "shutdown_drop" => ENABLED drop)
    /\ [][shutFailed' = shutFailed + 1 =>
            /\ ~rxAlive
            /\ pc' = IF pc = "idle" /\ pc' # "dropped" THEN "shutdown_drop"
                     ELSE "dropped"
            /\ UNCHANGED <<cell, events, nshut, result, last, taken, replyq,
                   errTxAlive, slot, alertq>>
            /\ IF pc' = "dropped"
               THEN errq' = <<>> /\ ~errRxAlive' /\ ~evTxAlive'
               ELSE UNCHANGED <<errq, errRxAlive, evTxAlive>>]_vars

\* shutdown() and the drop that follows it both failed to send, and an
\* error that was pending is gone with the handle.
C15_Witness ==
    /\ pc = "dropped"
    /\ shutFailed = 2
    /\ nshut = 0
    /\ nerr = 2
    /\ Len(taken) = 1
    /\ errq = <<>>

\* C16 as stated: the two impls take the same steps to the same results
\* and contents, and each call sends exactly one event: the mapping events
\* sent are as many as the calls made.
C16_Original ==
    /\ pc = "request_recv" => request_inbound_recv = request_outbound_recv
    /\ pc = "request_wait_err" =>
           request_inbound_wait_err = request_outbound_wait_err
    /\ nsent - nshut = nreq

\* C16: request() is uniform over the descriptor kind.  From every state
\* in which request() can be called, and for every descriptor m and
\* request kind k, the inbound and the outbound impl do the same up to the
\* send, except for the variant of the event: each performs one send of
\* an event of its own variant that carries m and k unchanged.  While the
\* worker's receiver exists the send places exactly that one event; with
\* the receiver gone it places none and the call panics, in both impls
\* alike.  At the receive of the reply and at the fetch of the error the
\* two impls do the same from every state a call of either can be in:
\* same step, same result, same channel and cell contents.  The rest of
\* the call sends nothing, so the mapping events sent are as many as the
\* calls whose send succeeded.
C16_RequestUniformOverDescriptorKind ==
    /\ [](pc = "idle" /\ nreq + ncalls < MaxOps =>
            \A m \in Descriptors, k \in RequestType :
              LET i == request_inbound_send(m, k)
                  o == request_outbound_send(m, k)
              IN /\ [i EXCEPT !.events = <<>>, !.impl = "none"]
                      = [o EXCEPT !.events = <<>>, !.impl = "none"]
                 /\ IF rxAlive
                    THEN /\ i.events = Append(events,
                                [type |-> "InboundMap", map |-> m,
                                 kind |-> k, r |-> nreq + 1,
                                 seq |-> nsent + 1])
                         /\ o.events = Append(events,
                                [type |-> "OutboundMap", map |-> m,
                                 kind |-> k, r |-> nreq + 1,
                                 seq |-> nsent + 1])
                         /\ i.impl = "InboundMap"
                         /\ o.impl = "OutboundMap"
                         /\ i.pc = "request_recv"
                    ELSE /\ i.events = events
                         /\ o.events = events
                         /\ i.impl = "none"
                         /\ o.impl = "none"
                         /\ i.pc = "panicked"
                         /\ i.result[nreq + 1] = Panic("send"))
    /\ [](pc = "request_recv" =>
            request_inbound_recv = request_outbound_recv)
    /\ [](pc = "request_wait_err" =>
            request_inbound_wait_err = request_outbound_wait_err)
    /\ [](nsent - nshut =
            Cardinality({r \in 1..nreq : result[r] # Panic("send")}))
    /\ [][/\ \A v \in Variants, m \in Descriptors, k \in RequestType :
               request_send(v, m, k) =>
                 /\ nreq' = nreq + 1
                 /\ cell' = [cell EXCEPT ![nreq + 1] =
                                IF rxAlive THEN Requested ELSE Freed]
                 /\ IF rxAlive
                    THEN /\ events' = Append(events,
                                [type |-> v, map |-> m, kind |-> k,
                                 r |-> nreq + 1, seq |-> nsent + 1])
                         /\ nsent' = nsent + 1
                         /\ pc' = "request_recv"
                         /\ cur' = nreq + 1
                         /\ curImpl' = v
                         /\ result' = result
                    ELSE /\ events' = events
                         /\ nsent' = nsent
                         /\ pc' = "panicked"
                         /\ result' = [result EXCEPT
                                         ![nreq + 1] = Panic("send")]
          /\ (request_recv \/ request_wait_err) =>
                 /\ events' = events
                 /\ nsent' = nsent
                 /\ curImpl' \in {curImpl, "none"}]_vars

\* The second call is on the outbound impl, after a first call on the
\* inbound impl succeeded: it sent the one event, of variant OutboundMap,
\* with the caller's descriptor and kind, and waits for the reply.
C16_Witness ==
    /\ nreq = 2
    /\ pc = "request_recv"
    /\ curImpl = "OutboundMap"
    /\ result[1].kind = "Ok"
    /\ recvLog = <<1>>
    /\ events = <<[type |-> "OutboundMap", map |-> "d2", kind |-> "KeepAlive",
                   r |-> 2, seq |-> 2]>>
    /\ 1 \in wmaps

\* C17: each request() call allocates its own reply channel, alert channel
\* and state cell.  No two requests hold the same ones, the event of a call
\* carries the ones that call allocated, and they were not in use before.
\* The worker's reply for the event it is processing goes into that event's
\* reply channel only and is taken out only by the request that allocated
\* it; a cell changes only when it is allocated, when the worker writes
\* that very cell, or when the request that allocated it ends without a
\* mapping handle and drops it; an alert appears only on the alert channel
\* of the cell written and disappears only with the request that allocated
\* the channel.  So what a successful request observed is what the worker
\* issued for its own event.
C17_OwnChannelsAndCell ==
    /\ [](\A r1, r2 \in 1..nreq : r1 # r2 => slot[r1] # slot[r2])
    /\ [](\A r \in 1..nreq :
            result[r].kind = "Ok" =>
                /\ answered[slot[r]] = "id"
                /\ sentId[slot[r]] = result[r].id)
    /\ [][/\ nreq' = nreq + 1 =>
               /\ slot'[nreq'] \notin {slot[r] : r \in 1..nreq}
               /\ cell'[slot'[nreq']] = IF rxAlive THEN Requested ELSE Freed
               /\ replyq'[slot'[nreq']] = <<>>
               /\ alertq'[slot'[nreq']] = <<>>
               /\ rxAlive => events'[Len(events')].r = slot'[nreq']
          /\ \A a \in Reqs :
               /\ Len(replyq'[a]) > Len(replyq[a]) => a = wcur
               /\ Len(replyq'[a]) < Len(replyq[a]) =>
                     /\ pc = "request_recv"
                     /\ a = slot[cur]
               /\ (cell'[a] # cell[a] /\ nreq' = nreq) =>
                     \/ /\ a \in wmaps \cup {wcur}
                        /\ writes'[a] = writes[a] + 1
                     \/ /\ cur # 0 /\ a = slot[cur] /\ cur' = 0
                        /\ result'[cur].kind # "Ok"
                        /\ cell'[a] = Freed
               /\ alertq'[a] # alertq[a] =>
                     \/ /\ writes'[a] = writes[a] + 1
                        /\ alertq'[a] = Append(alertq[a], cell'[a])
                     \/ /\ cur # 0 /\ a = slot[cur] /\ cur' = 0
                        /\ result'[cur].kind # "Ok"
                        /\ alertq'[a] = <<>>]_vars

C17_Witness ==
    /\ nreq = 2
    /\ result[1].kind = "Ok"
    /\ cell[slot[1]] = WorkerStates[1]
    /\ alertq[slot[1]] = <<WorkerStates[1]>>
    /\ result[2].kind = "Err"
    /\ writes[slot[2]] = 1
    /\ cell[slot[2]] = Freed
    /\ alertq[slot[2]] = <<>>

\* A step of the session handle: of request(), wait_err(), poll_err(),
\* shutdown() or drop.
HandleStep ==
    \/ pc' # pc
    \/ nreq' # nreq
    \/ ncalls' # ncalls
    \/ nsent' # nsent
    \/ shutFailed' # shutFailed

\* C18: single writer of the state cell.  Once request() has created a cell
\* as Requested, the cell's value tells how many times the worker wrote it,
\* every change of its value is one write by the worker, and a step of the
\* session handle (request, wait_err, poll_err, shutdown, drop) leaves the
\* value of every cell that already exists as it is.  (A request that ends
\* without a mapping handle drops its Arc of the cell, which frees a cell the
\* worker no longer holds; that stores nothing.)
C18_OnlyWorkerWritesCell ==
    /\ [](\A r \in 1..nreq :
            cell[slot[r]] # Freed =>
                StateRank(cell[slot[r]]) = writes[slot[r]])
    /\ [][\A r \in 1..nreq :
            LET a == slot[r] IN
            /\ (cell'[a] # cell[a] /\ cell'[a] # Freed) =>
                  /\ writes'[a] = writes[a] + 1
                  /\ wstate # "Stopped"
                  /\ ~HandleStep
            /\ HandleStep => cell'[a] \in {cell[a], Freed}
            /\ cell[a] = Freed => cell'[a] = Freed]_vars

C18_Witness ==
    /\ pc = "dropped"
    /\ nshut = 2
    /\ ncalls = 1
    /\ result[1].kind = "Ok"
    /\ cell[slot[1]] = WorkerStates[1]
    /\ writes[slot[1]] = 1

\* C19: the number of Shutdown events of a session handle, while the
\* worker's event receiver exists.  A handle destroyed without a call of
\* shutdown() places its only Shutdown event; the call of shutdown() places
\* the first and the destruction that follows it the second, and nothing is
\* placed after the destruction.  The Shutdown events are the last ones on
\* the event channel: no request() is made once one has been placed.
C19_ShutdownEventCount ==
    /\ [](\A i, j \in 1..Len(events) :
            (i < j /\ events[i].type = "Shutdown") =>
                events[j].type = "Shutdown")
    /\ []((pc = "dropped" /\ shutFailed = 0) =>
            nshut = IF shutCalled THEN 2 ELSE 1)
    /\ []((pc = "shutdown_drop" /\ shutFailed = 0) =>
            (shutCalled /\ nshut = 1))
    /\ [][/\ (pc \in {"idle", "panicked"} /\ pc' = "dropped" /\ rxAlive) =>
               /\ nshut = 0
               /\ nshut' = 1
               /\ events' = Append(events, ShutdownEvent(nsent + 1))
          /\ (pc = "idle" /\ pc' = "shutdown_drop" /\ rxAlive) =>
               /\ nshut = 0
               /\ nshut' = 1
               /\ events' = Append(events, ShutdownEvent(nsent + 1))
          /\ (pc = "shutdown_drop" /\ shutFailed = 0) =>
               /\ nshut = 1
               /\ pc' # pc => pc' = "dropped"
               /\ (pc' = "dropped" /\ rxAlive) =>
                     /\ nshut' = 2
                     /\ events' = Append(events, ShutdownEvent(nsent + 1))
          /\ pc = "dropped" => (nshut' = nshut /\ nsent' = nsent)
          /\ nshut >= 1 =>
               /\ nreq' = nreq
               /\ nsent' - nshut' = nsent - nshut]_vars

C19_Witness ==
    /\ pc = "dropped"
    /\ rxAlive
    /\ nreq = 2
    /\ shutCalled
    /\ nshut = 2
    /\ Len(events) = 2
    /\ events[1].type = "Shutdown"
    /\ events[2].type = "Shutdown"

\* q starts with p.
IsPrefix(p, q) == Len(p) <= Len(q) /\ SubSeq(q, 1, Len(p)) = p

\* C20: a request() whose reply carries an identifier leaves the error
\* channel as it is.  The step that takes such a reply returns success and
\* takes nothing from the error channel, and the errors that were pending
\* when the request was called are still pending, in the same order, when
\* it returns; no step of the call before it touches the error channel.
C20_SuccessLeavesErrorChannel ==
    /\ [](\A r \in 1..nreq : result[r].kind = "Ok" => consumed[r] = 0)
    /\ [](pc \in {"request_recv", "request_wait_err"} =>
            IsPrefix(errAtCall, errq))
    /\ [][/\ nreq' = nreq + 1 => (errq' = errq /\ taken' = taken)
          /\ (/\ pc = "request_recv"
              /\ pc' # pc
              /\ replyq[slot[cur]] # <<>>
              /\ Head(replyq[slot[cur]]).some) =>
                 /\ pc' = "idle"
                 /\ result'[cur] = Ok(Head(replyq[slot[cur]]).id)
                 /\ errq' = errq
                 /\ taken' = taken
                 /\ consumed' = consumed
                 /\ IsPrefix(errAtCall, errq')]_vars

C20_Witness ==
    /\ pc = "idle"
    /\ result[1].kind = "Err"
    /\ result[2].kind = "Ok"
    /\ consumed[1] = 1
    /\ Len(errq) = 1
    /\ errq[1].for = 1
    /\ errq[1].n = 2

====
